---- MODULE Spec2Model ----
(***************************************************************************)
(* Model of the Mongo oplog tailer of src/gomongo/gooplog.go.              *)
(*                                                                         *)
(* The process state is the three package globals (session,                *)
(* tailerInfoCollection, tailerInfo), the locals of Start (iter, result)   *)
(* and the goroutines Start spawns for every fetched entry: the closure    *)
(* that advances the checkpoint (it shares `result` with the loop) and the *)
(* closure that dispatches to the OpLogger (it gets a copy of `result`).   *)
(***************************************************************************)
EXTENDS Integers, Sequences, FiniteSets, Bags, TLC

VARIABLES
    pc,                   \* position of the main goroutine
    log,                  \* local.oplog.rs: the replication log
    tailerInfoCollection, \* gooplog.opLogTailerInfo: the checkpoint documents
    tailerInfo,           \* the package global *opLogTailerInfo
    iter,                 \* the tailing cursor of Start
    result,               \* `var result opLogEntry` of Start
    advTasks,             \* bag of running checkpoint goroutines (line 143)
    hTasks,               \* bag of running dispatch goroutines (line 148)
    calls,                \* bag of OpLogger method invocations made so far
    reopens,              \* number of times the cursor died in this run
    restarts,             \* number of times the process was started again
    prevInit,             \* what NewOpLogTailer left, if the process died right after it
    missed                \* what the process that died last had fetched but not dispatched

vars == <<pc, log, tailerInfoCollection, tailerInfo, iter, result,
          advTasks, hTasks, calls, reopens, restarts, prevInit, missed>>

----------------------------------------------------------------------------
(* Bounds of the model *)

\* number of entries in the replication log
LogLen == 2
\* number of times a tailing cursor may die without an error in one run
MaxReopen == 1
\* number of goroutines of one kind that are running at the same time
MaxInFlight == 2
\* number of times the process is started again
MaxRestart == 1
\* stand-in for the 2^32 ordinals per second of a bson.MongoTimestamp
OrdRange == 2

----------------------------------------------------------------------------
(* Values *)

NULL == "nil"

\* namespaces and filter patterns are sequences of name parts
Namespaces == { <<"orders", "created">>, <<"users", "created">>,
                <<"orders", "updated">> }
Filters == { <<"orders">> }
Labels == { "etl1", "etl2" }
Times == { 0, 1 }

\* bson.MongoTimestamp(seconds << 32 | ordinal)
MongoTimestamp(seconds, ordinal) == seconds * OrdRange + ordinal

\* the i-th entry of the log is the first operation of second i - 1
EntryTs(i) == MongoTimestamp(i - 1, 1)

\* the zero value of opLogEntry
ZeroEntry == [ts |-> 0, op |-> "", ns |-> <<>>, o |-> 0]

----------------------------------------------------------------------------
(* The store's query language, as far as the tailer uses it *)

\* {"$regex": bson.RegEx{pattern, ""}}: unanchored, case-sensitive match of a
\* literal pattern; the empty pattern matches every namespace
RegexMatch(pattern, s) ==
    \E i \in 0..(Len(s) - Len(pattern)) :
        SubSeq(s, i + 1, i + Len(pattern)) = pattern

\* one clause {field: val} or {field: {"$gt" | "$gte" | "$regex": val}}
ClauseHolds(c, doc) ==
    CASE c.cmp = "$eq" -> doc[c.field] = c.val
      [] c.cmp = "$gt" -> doc[c.field] > c.val
      [] c.cmp = "$gte" -> doc[c.field] >= c.val
      [] c.cmp = "$regex" -> RegexMatch(c.val, doc[c.field])

\* {"$and": clauses}
Matches(selector, doc) ==
    \A k \in 1..Len(selector) : ClauseHolds(selector[k], doc)

\* collection.Find(selector): the matching documents in natural order
Find(collection, selector) ==
    SelectSeq(collection, LAMBDA doc : Matches(selector, doc))

\* collection.Update(selector, doc): the first matching document is replaced
\* by doc; with no match the call returns ErrNotFound, which Start ignores
Update(collection, selector, doc) ==
    LET hits == { k \in 1..Len(collection) : Matches(selector, collection[k]) }
    IN  IF hits = {} THEN collection
        ELSE LET first == CHOOSE k \in hits : \A j \in hits : k <= j
             IN  [collection EXCEPT ![first] = doc]

----------------------------------------------------------------------------
(* Selector builders *)

buildOpLogTailerInfoSelector(info) ==
    << [field |-> "filterRegex", cmp |-> "$eq", val |-> info.filterRegex],
       [field |-> "label", cmp |-> "$eq", val |-> info.label] >>

buildOpLogSelectorGte(info) ==
    << [field |-> "ts", cmp |-> "$gte", val |-> info.startReadingFromTime],
       [field |-> "ns", cmp |-> "$regex", val |-> info.filterRegex] >>

buildOpLogSelector(info) ==
    << [field |-> "ts", cmp |-> "$gt", val |-> info.startReadingFromTime],
       [field |-> "ns", cmp |-> "$regex", val |-> info.filterRegex] >>

UpdateSelectorByFilter(info) ==
    << [field |-> "filterRegex", cmp |-> "$eq", val |-> info.filterRegex] >>

\* bson.M{"filterRegex": ..., "label": ...} of the checkpoint goroutine
UpdateSelector(info) ==
    << [field |-> "filterRegex", cmp |-> "$eq", val |-> info.filterRegex],
       [field |-> "label", cmp |-> "$eq", val |-> info.label] >>

----------------------------------------------------------------------------
(* The tailing cursor *)

\* Tail(-1) waits without bound, Tail(5 * time.Second) for five seconds
InitialWait == -1
ReconnectWait == 5

\* collection.Find(selector)...Tail(wait); `from` remembers the checkpoint
\* the caller built the selector from
TailCursor(selector, wait, from) ==
    [sel |-> selector, wait |-> wait, last |-> 0, timeout |-> FALSE,
     err |-> FALSE, dead |-> FALSE, from |-> from]

\* log indexes the cursor has still to deliver, in natural order
Pending(it) ==
    { i \in 1..Len(log) : i > it.last /\ Matches(it.sel, log[i]) }

HasNext(it) == Pending(it) # {}

NextIndex(it) == CHOOSE i \in Pending(it) : \A j \in Pending(it) : i <= j

----------------------------------------------------------------------------
(* Dispatch of one entry to the OpLogger *)

DispatchOtherAsInsert(op) ==
    CASE op = "u" -> "OnUpdate"
      [] op = "i" -> "OnInsert"
      [] op = "d" -> "OnDelete"
      [] OTHER -> "OnInsert"

DispatchDeleteAsUpdate(op) ==
    CASE op = "u" -> "OnUpdate"
      [] op = "i" -> "OnInsert"
      [] op = "d" -> "OnUpdate"
      [] OTHER -> NULL

Dispatch(op) ==
    CASE op = "u" -> "OnUpdate"
      [] op = "i" -> "OnInsert"
      [] op = "d" -> "OnDelete"
      [] OTHER -> NULL

----------------------------------------------------------------------------
(* Initial states *)

\* the (operation, namespace) shapes of the entries, in a cycle that starts
\* with the three entries of the end-to-end scenario
EntryKinds ==
    << <<"i", <<"orders", "created">> >>, <<"i", <<"users", "created">> >>,
       <<"u", <<"orders", "updated">> >>, <<"d", <<"orders", "created">> >>,
       <<"n", <<"orders", "created">> >> >>

\* the log of n entries that starts at place `first` of the cycle; the
\* payload of the i-th entry stands for its document
MakeLog(first, n) ==
    [i \in 1..n |->
        LET kind == EntryKinds[((first + i - 2) % Len(EntryKinds)) + 1]
        IN  [ts |-> EntryTs(i), op |-> kind[1], ns |-> kind[2], o |-> i]]

Logs == { MakeLog(first, LogLen) : first \in 1..Len(EntryKinds) }

Checkpoint(filterRegex, label, position) ==
    [filterRegex |-> filterRegex, startReadingFromTime |-> position,
     label |-> label]

\* what an earlier process may have left in gooplog.opLogTailerInfo: nothing,
\* one checkpoint, or (after a repair gone wrong) the same checkpoint twice
Stores ==
    LET old == Checkpoint(<<"orders">>, "etl1", MongoTimestamp(0, 0))
    IN  { <<>>, <<old>>, <<old, old>> }

\* no process has died yet
NoneMissed == [label |-> "", at |-> {}]

\* a process that has just started: no cursor, no goroutine
Fresh ==
    /\ iter = NULL
    /\ result = ZeroEntry
    /\ advTasks = EmptyBag
    /\ hTasks = EmptyBag
    /\ calls = EmptyBag
    /\ reopens = 0
    /\ restarts = 0
    /\ prevInit = [valid |-> FALSE]
    /\ missed = NoneMissed

InitWith(logs, stores) ==
    /\ pc = "main"
    /\ log \in logs
    /\ tailerInfoCollection \in stores
    /\ tailerInfo = NULL
    /\ Fresh

Init == InitWith(Logs, Stores)

----------------------------------------------------------------------------
(* NewOpLogTailer, lines 62-109 *)

TooManyAboveTwo(count) == count > 2

\* line 88: more than one document for this filter and label is fatal
TooMany(count) == count > 1

MustCreateAlways(count) == TRUE

\* line 92: no document yet for this filter and label
MustCreate(count) == count = 0

OneKeepsFresh(found, into) == into

\* line 102: query.One(&tailerInfo) reads the document over the fresh value
One(found, into) == found[1]

NewOpLogTailer(filterRegex, label, now) ==
    /\ pc = "main"
    /\ LET fresh == Checkpoint(filterRegex, label, MongoTimestamp(now, 0))
           found == Find(tailerInfoCollection, buildOpLogTailerInfoSelector(fresh))
           count == Len(found)
       IN  IF TooMany(count)
           THEN /\ pc' = "fatal"
                /\ tailerInfo' = fresh
                /\ UNCHANGED tailerInfoCollection
           ELSE /\ pc' = "created"
                /\ IF MustCreate(count)
                   THEN /\ tailerInfoCollection' = Append(tailerInfoCollection, fresh)
                        /\ tailerInfo' = fresh
                   ELSE /\ tailerInfo' = One(found, fresh)
                        /\ UNCHANGED tailerInfoCollection
    /\ UNCHANGED <<log, iter, result, advTasks, hTasks, calls, reopens,
                   restarts, prevInit, missed>>

----------------------------------------------------------------------------
(* Start, lines 133-178: the fetch loop *)

\* line 137: the first cursor
StartOpen ==
    /\ pc = "created"
    /\ iter' = TailCursor(buildOpLogSelector(tailerInfo), InitialWait, tailerInfo)
    /\ pc' = "next"
    /\ prevInit' = [valid |-> FALSE]
    /\ UNCHANGED <<log, tailerInfoCollection, tailerInfo, result,
                   advTasks, hTasks, calls, reopens, restarts, missed>>

\* the checkpoint goroutine of line 143, about to read result.Ts
AdvTask(entry) == [for |-> entry.ts, pc |-> "read", ts |-> 0, doc |-> NULL]

\* the dispatch goroutine of line 148 with its copy of result
HandlerTask(entry) == [for |-> entry.ts, result |-> entry]

\* lines 141-161: iter.Next(&result) returns true and both goroutines start;
\* the decoding into `result` is one step, so that a goroutine that reads
\* `result` at the same time sees the entry before or the entry after
IterNext ==
    /\ pc = "next"
    /\ HasNext(iter)
    /\ BagCardinality(advTasks) < MaxInFlight
    /\ BagCardinality(hTasks) < MaxInFlight
    /\ LET i == NextIndex(iter)
       IN  /\ result' = log[i]
           /\ iter' = [iter EXCEPT !.last = i, !.timeout = FALSE]
           /\ advTasks' = advTasks (+) SetToBag({AdvTask(log[i])})
           /\ hTasks' = hTasks (+) SetToBag({HandlerTask(log[i])})
    /\ UNCHANGED <<pc, log, tailerInfoCollection, tailerInfo, calls, reopens,
                   restarts, prevInit, missed>>

AfterLoopReconnectOnTimeout(err, timeout) ==
    IF err THEN "returned" ELSE "reconnecting"

AfterLoopReturnOnTimeout(err, timeout) ==
    IF err \/ timeout THEN "returned" ELSE "reconnecting"

AfterLoopRetry(err, timeout) ==
    IF timeout THEN "next" ELSE "reconnecting"

\* lines 163-176: where the loop goes when iter.Next has returned false
AfterLoop(err, timeout) ==
    IF err THEN "returned"
    ELSE IF timeout THEN "next"
    ELSE "reconnecting"

\* iter.Next returns false with iter.Err() != nil; lines 163-166 return
CursorError ==
    /\ pc = "next"
    /\ iter' = [iter EXCEPT !.err = TRUE, !.timeout = FALSE]
    /\ pc' = AfterLoop(TRUE, FALSE)
    /\ UNCHANGED <<log, tailerInfoCollection, tailerInfo, result,
                   advTasks, hTasks, calls, reopens, restarts, prevInit, missed>>

\* iter.Next returns false after the bounded wait; lines 168-170 continue
CursorTimeout ==
    /\ pc = "next"
    /\ iter.wait # InitialWait
    /\ ~HasNext(iter)
    /\ iter' = [iter EXCEPT !.timeout = TRUE]
    /\ pc' = AfterLoop(FALSE, TRUE)
    /\ UNCHANGED <<log, tailerInfoCollection, tailerInfo, result,
                   advTasks, hTasks, calls, reopens, restarts, prevInit, missed>>

\* iter.Next returns false, no error, no timeout: the cursor is dead
CursorDead ==
    /\ pc = "next"
    /\ reopens < MaxReopen
    /\ reopens' = reopens + 1
    /\ iter' = [iter EXCEPT !.dead = TRUE, !.timeout = FALSE]
    /\ pc' = AfterLoop(FALSE, FALSE)
    /\ UNCHANGED <<log, tailerInfoCollection, tailerInfo, result,
                   advTasks, hTasks, calls, restarts, prevInit, missed>>

\* lines 172-175: a new cursor from the checkpoint in memory
Reconnect ==
    /\ pc = "reconnecting"
    /\ iter' = TailCursor(buildOpLogSelector(tailerInfo), ReconnectWait, tailerInfo)
    /\ pc' = "next"
    /\ UNCHANGED <<log, tailerInfoCollection, tailerInfo, result,
                   advTasks, hTasks, calls, reopens, restarts, prevInit, missed>>

----------------------------------------------------------------------------
(* The checkpoint goroutine, lines 143-146.  It shares `result` and          *)
(* `tailerInfo` with the loop and with the other goroutines and takes no     *)
(* lock, so each of its reads and writes is a step of its own.               *)

Step(tasks, t, next) == (tasks (-) SetToBag({t})) (+) SetToBag({next})

\* line 144, right-hand side: read result.Ts
AdvRead(t) ==
    /\ BagIn(t, advTasks)
    /\ t.pc = "read"
    /\ advTasks' = Step(advTasks, t, [t EXCEPT !.pc = "write", !.ts = result.ts])
    /\ UNCHANGED <<pc, log, tailerInfoCollection, tailerInfo, iter, result,
                   hTasks, calls, reopens, restarts, prevInit, missed>>

\* line 144, left-hand side: write tailerInfo.StartReadingFromTime (the value
\* read and the entry the goroutine was started for are dead afterwards and
\* are cleared)
AdvWrite(t) ==
    /\ BagIn(t, advTasks)
    /\ t.pc = "write"
    /\ tailerInfo' = [tailerInfo EXCEPT !.startReadingFromTime = t.ts]
    /\ advTasks' = Step(advTasks, t, [t EXCEPT !.pc = "marshal", !.ts = 0, !.for = 0])
    /\ UNCHANGED <<pc, log, tailerInfoCollection, iter, result,
                   hTasks, calls, reopens, restarts, prevInit, missed>>

\* line 145: the selector and the document are built from tailerInfo
AdvMarshal(t) ==
    /\ BagIn(t, advTasks)
    /\ t.pc = "marshal"
    /\ advTasks' = Step(advTasks, t, [t EXCEPT !.pc = "update", !.doc = tailerInfo])
    /\ UNCHANGED <<pc, log, tailerInfoCollection, tailerInfo, iter, result,
                   hTasks, calls, reopens, restarts, prevInit, missed>>

\* line 145: the store applies the update; the goroutine ends
AdvUpdate(t) ==
    /\ BagIn(t, advTasks)
    /\ t.pc = "update"
    /\ tailerInfoCollection' =
           Update(tailerInfoCollection, UpdateSelector(t.doc), t.doc)
    /\ advTasks' = advTasks (-) SetToBag({t})
    /\ UNCHANGED <<pc, log, tailerInfo, iter, result, hTasks, calls, reopens,
                   restarts, prevInit, missed>>

----------------------------------------------------------------------------
(* The dispatch goroutine, lines 148-160 *)

HandlerArgShared(t) == result

\* line 148: `result` inside the goroutine is its parameter, the copy made
\* when the goroutine was started
HandlerArg(t) == t.result

Call(method, arg, t) == [method |-> method, arg |-> arg.o, for |-> t.for]

Handle(t) ==
    /\ BagIn(t, hTasks)
    /\ hTasks' = hTasks (-) SetToBag({t})
    /\ LET arg == HandlerArg(t)
           method == Dispatch(arg.op)
       IN  IF method = NULL
           THEN UNCHANGED calls
           ELSE calls' = calls (+) SetToBag({Call(method, arg, t)})
    /\ UNCHANGED <<pc, log, tailerInfoCollection, tailerInfo, iter, result,
                   advTasks, reopens, restarts, prevInit, missed>>

----------------------------------------------------------------------------
(* One run of the process: main of src/simple_logger.go *)

Main ==
    \E now \in Times : NewOpLogTailer(<<"orders">>, "etl1", now)

Loop ==
    \/ StartOpen
    \/ IterNext
    \/ CursorError
    \/ CursorTimeout
    \/ CursorDead
    \/ Reconnect

AdvStep ==
    \E t \in BagToSet(advTasks) :
        AdvRead(t) \/ AdvWrite(t) \/ AdvMarshal(t) \/ AdvUpdate(t)

HandleStep == \E t \in BagToSet(hTasks) : Handle(t)

Goroutines == AdvStep \/ HandleStep

Next == Main \/ Loop \/ Goroutines

Spec == Init /\ [][Next]_vars

----------------------------------------------------------------------------
(* Process restarts: the process dies at any point (a crash, the exit of     *)
(* log.Fatalf, the return of main) and is started again, with any label.     *)
(* The globals, the locals of Start and the goroutines are lost; the log     *)
(* and the checkpoint collection stay.                                       *)

\* the positions of the inserts, updates and deletes the loop has fetched and
\* no handler method was invoked for, though the checkpoint document has
\* reached them
PassedUndelivered ==
    LET info == Find(tailerInfoCollection,
                     buildOpLogTailerInfoSelector(tailerInfo))[1]
        made == { c.for : c \in BagToSet(calls) }
    IN  { t.for : t \in { h \in BagToSet(hTasks) :
                             /\ h.result.op \in {"i", "u", "d"}
                             /\ h.for \notin made
                             /\ info.startReadingFromTime >= h.for } }

Crash ==
    /\ pc # "main"
    /\ restarts < MaxRestart
    /\ restarts' = restarts + 1
    /\ pc' = "main"
    /\ tailerInfo' = NULL
    /\ iter' = NULL
    /\ result' = ZeroEntry
    /\ advTasks' = EmptyBag
    /\ hTasks' = EmptyBag
    /\ calls' = EmptyBag
    /\ reopens' = 0
    /\ prevInit' = IF pc = "created"
                   THEN [valid |-> TRUE, info |-> tailerInfo,
                         store |-> tailerInfoCollection]
                   ELSE [valid |-> FALSE]
    /\ missed' = IF pc \in {"next", "reconnecting", "returned"}
                 THEN [label |-> tailerInfo.label, at |-> PassedUndelivered]
                 ELSE NoneMissed
    /\ UNCHANGED <<log, tailerInfoCollection>>

MainAny ==
    \E f \in Filters, l \in Labels, now \in Times : NewOpLogTailer(f, l, now)

NextRestart == MainAny \/ Loop \/ Goroutines \/ Crash

SpecRestart == Init /\ [][NextRestart]_vars

----------------------------------------------------------------------------
(* A run in which the cursor never reports an error, under the fairness of   *)
(* the Go scheduler: the main goroutine and every started goroutine go on    *)
(* running.  The cursor may still die or time out.                           *)

NextFair ==
    \/ Main
    \/ StartOpen \/ IterNext \/ CursorTimeout \/ CursorDead \/ Reconnect
    \/ Goroutines

SpecFair ==
    /\ Init
    /\ [][NextFair]_vars
    /\ WF_vars(Main)
    /\ WF_vars(StartOpen)
    /\ WF_vars(IterNext)
    /\ WF_vars(Reconnect)
    /\ WF_vars(AdvStep)
    /\ WF_vars(HandleStep)

----------------------------------------------------------------------------
(* The end-to-end scenario of the specification: an empty checkpoint        *)
(* collection and the log orders.created (insert), users.created (insert),   *)
(* orders.updated (update).                                                  *)

InitE2E == InitWith({ MakeLog(1, 3) }, { <<>> })

SpecE2E == InitE2E /\ [][Next]_vars

----------------------------------------------------------------------------
(* The selector on its own: a tailer that starts from any checkpoint, with   *)
(* any pattern, and only opens and reads cursors.                            *)

Patterns == { <<>>, <<"orders">>, <<"created">>, <<"orders", "created">>,
              <<"created", "orders">> }

Positions == 0..EntryTs(LogLen)

InitSel ==
    /\ pc = "created"
    /\ log \in Logs
    /\ tailerInfo \in { Checkpoint(f, "etl1", p) : f \in Patterns, p \in Positions }
    /\ tailerInfoCollection = << tailerInfo >>
    /\ Fresh

NextSel == StartOpen \/ IterNext \/ CursorDead \/ Reconnect

SpecSel == InitSel /\ [][NextSel]_vars

----------------------------------------------------------------------------
(* Initialization on its own: the process is started, dies before Start has  *)
(* opened a cursor and is started again, on a collection that holds nothing, *)
(* one checkpoint at any position, or the same checkpoint twice.             *)

InitStores ==
    LET old == { Checkpoint(<<"orders">>, l, p) : l \in Labels, p \in Positions }
    IN  { <<>> } \cup { <<c>> : c \in old } \cup { <<c, c>> : c \in old }

InitInit == InitWith(Logs, InitStores)

NextInit == MainAny \/ Crash

SpecInit == InitInit /\ [][NextInit]_vars

----------------------------------------------------------------------------
(* Two tailers in one process: while Start of the first tailer is running,   *)
(* another goroutine of the program calls NewOpLogTailer for another filter  *)
(* and label.  The call works on the same package globals (lines 57-59).     *)
(* Only the construction of the second tailer is modelled, not its Start, so *)
(* every cursor and every goroutine of the model belongs to the first one.   *)

\* the filter and label main gives the first tailer
FirstFilter == <<"orders">>
FirstLabel == "etl1"

\* the filter and label of the second tailer
SecondFilter == <<"users">>
SecondLabel == "etl2"

\* lines 75-104 run for the second tailer; log.Fatalf ends the whole process
SecondTailer ==
    /\ pc \in {"next", "reconnecting"}
    /\ tailerInfo.label = FirstLabel
    /\ \E now \in Times :
         LET fresh == Checkpoint(SecondFilter, SecondLabel, MongoTimestamp(now, 0))
             found == Find(tailerInfoCollection, buildOpLogTailerInfoSelector(fresh))
             count == Len(found)
         IN  IF TooMany(count)
             THEN /\ pc' = "fatal"
                  /\ tailerInfo' = fresh
                  /\ advTasks' = EmptyBag
                  /\ hTasks' = EmptyBag
                  /\ UNCHANGED tailerInfoCollection
             ELSE /\ IF MustCreate(count)
                     THEN /\ tailerInfoCollection' = Append(tailerInfoCollection, fresh)
                          /\ tailerInfo' = fresh
                     ELSE /\ tailerInfo' = One(found, fresh)
                          /\ UNCHANGED tailerInfoCollection
                  /\ UNCHANGED <<pc, advTasks, hTasks>>
    /\ UNCHANGED <<log, iter, result, calls, reopens, restarts, prevInit, missed>>

NextTwo == Next \/ SecondTailer

SpecTwo == Init /\ [][NextTwo]_vars

----------------------------------------------------------------------------
(* Vocabulary of the properties *)

\* the position held by the checkpoint document of the running tailer
Persisted ==
    Find(tailerInfoCollection, buildOpLogTailerInfoSelector(tailerInfo))[1]
        .startReadingFromTime

\* the tailer exists: NewOpLogTailer has returned it
Tailing == pc \in {"created", "next", "reconnecting", "returned"}

\* number of OpLogger invocations made for the entry at position ts
CallsFor(ts) ==
    LET made == { c \in BagToSet(calls) : c.for = ts }
        Sum[S \in SUBSET made] ==
            IF S = {} THEN 0
            ELSE LET c == CHOOSE x \in S : TRUE
                 IN  CopiesIn(c, calls) + Sum[S \ {c}]
    IN  Sum[made]

Recognized(op) == op \in {"i", "u", "d"}

\* no goroutine of Start is running
Quiet == advTasks = EmptyBag /\ hTasks = EmptyBag

----------------------------------------------------------------------------
(* C1: at-most-once delivery within one run *)

\* C1: in a run of Start without a crash, the handler is invoked at most once
\* for every log entry, also when the cursor is exhausted and reopened from
\* the checkpoint in memory.
C1_AtMostOnce ==
    \A i \in 1..Len(log) : CallsFor(log[i].ts) <= 1
\* C1: a state in which an entry was fetched a second time after a reopen
\* and dispatched twice
C1_Witness ==
    \E i \in 1..Len(log) : reopens = 1 /\ CallsFor(log[i].ts) = 2

----------------------------------------------------------------------------
(* C2: at-least-once delivery within one run *)

\* entry i is one the run has to deliver: a recognized operation in a
\* matching namespace after the checkpoint the run starts with
Qualifies(i) ==
    /\ pc = "created"
    /\ Recognized(log[i].op)
    /\ RegexMatch(tailerInfo.filterRegex, log[i].ns)
    /\ log[i].ts > tailerInfo.startReadingFromTime

\* the handler method of entry i was invoked with its payload
Delivered(i) ==
    \E c \in BagToSet(calls) :
        /\ c.arg = log[i].o
        /\ c.method = CASE log[i].op = "i" -> "OnInsert"
                        [] log[i].op = "u" -> "OnUpdate"
                        [] log[i].op = "d" -> "OnDelete"
                        [] OTHER -> "none"

\* C2: without a cursor error and under fair scheduling, every insert, update
\* or delete in a matching namespace after the starting checkpoint is
\* eventually handed to its handler method, however often the cursor dies.
C2_AtLeastOnce ==
    \A i \in 1..LogLen : Qualifies(i) ~> Delivered(i)

\* C2: an entry delivered by a cursor that was reopened
C2_Witness ==
    /\ pc = "next"
    /\ reopens = MaxReopen
    /\ iter.wait = ReconnectWait
    /\ iter.from.startReadingFromTime = log[1].ts
    /\ iter.last = Len(log)
    /\ Delivered(Len(log))

----------------------------------------------------------------------------
(* C3: checkpoint uniqueness *)

\* C3: once NewOpLogTailer has returned, in the first process or after a
\* restart, the collection holds exactly one document for the tailer's filter
\* and label, whatever Start and its goroutines have done since.
C3_Unique ==
    Tailing =>
        Len(Find(tailerInfoCollection,
                 buildOpLogTailerInfoSelector(tailerInfo))) = 1

\* C3: a restarted tailer that found the checkpoint of the earlier run and
\* has advanced it
C3_Witness ==
    /\ restarts = 1
    /\ pc = "next"
    /\ Quiet
    /\ iter.last > 0
    /\ iter.from.startReadingFromTime = log[1].ts
    /\ Persisted = result.ts
    /\ Len(tailerInfoCollection) = 1

----------------------------------------------------------------------------
(* C4: checkpoint monotonicity *)

\* C4: during a run of Start the position of the persisted checkpoint never
\* decreases.
C4_Monotonic ==
    [][(Tailing /\ Tailing') => Persisted' >= Persisted]_vars

----------------------------------------------------------------------------
(* C5: the end-to-end scenario *)

\* C5: with the checkpoint created before the first entry and no cursor error
\* or reopening, once every goroutine has ended the persisted position is the
\* one of the last matching entry, OnInsert was invoked once with the first
\* entry's payload, OnUpdate once with the third entry's, and nothing else.
C5_EndToEnd ==
    ( /\ pc = "next"
      /\ reopens = 0
      /\ iter.from.startReadingFromTime < log[1].ts
      /\ ~HasNext(iter)
      /\ Quiet )
    => /\ Persisted = log[3].ts
       /\ calls = SetToBag({
              [method |-> "OnInsert", arg |-> log[1].o, for |-> log[1].ts],
              [method |-> "OnUpdate", arg |-> log[3].o, for |-> log[3].ts] })
----------------------------------------------------------------------------
(* C6: what the loop does when the cursor stops *)

----------------------------------------------------------------------------
(* C7: the reopened cursor resumes after the checkpoint *)

\* C7: when the reconnect builds its selector while the checkpoint in memory
\* is the position P of the last delivered entry, the new cursor has exactly
\* the matching entries after P to deliver.
C7_ReconnectResumes ==
    ( /\ pc = "next"
      /\ iter.wait = ReconnectWait
      /\ iter.last = 0
      /\ iter.from.startReadingFromTime = result.ts )
    => Pending(iter) =
           { i \in 1..Len(log) :
               /\ log[i].ts > result.ts
               /\ RegexMatch(tailerInfo.filterRegex, log[i].ns) }

\* C7: a cursor reopened at the position of a delivered entry, with an entry
\* still to come
C7_Witness ==
    /\ pc = "next"
    /\ iter.wait = ReconnectWait
    /\ iter.last = 0
    /\ result.ts > 0
    /\ iter.from.startReadingFromTime = result.ts
    /\ Pending(iter) # {}

----------------------------------------------------------------------------
(* C8: dispatch routing *)

EntryAt(ts) == log[CHOOSE i \in 1..Len(log) : log[i].ts = ts]

\* the invocations the goroutine started for the entry at position ts owes
Owed(ts) ==
    LET e == EntryAt(ts)
        call(m) == SetToBag({ [method |-> m, arg |-> e.o, for |-> ts] })
    IN  CASE e.op = "i" -> call("OnInsert")
          [] e.op = "u" -> call("OnUpdate")
          [] e.op = "d" -> call("OnDelete")
          [] OTHER -> EmptyBag

\* C8: a dispatch goroutine that ends has made exactly the one invocation
\* its entry's operation calls for, with that entry's payload, and none for
\* an operation that is not insert, update or delete.
C8_DispatchRouting ==
    [][\A t \in BagToSet(hTasks) :
          hTasks' = hTasks (-) SetToBag({t}) => calls' = calls (+) Owed(t.for)
      ]_vars

\* C8: a delete and an unrecognized operation have both been dispatched, after
\* the loop had fetched the later entry
C8_Witness ==
    /\ Len(log) >= 2
    /\ log[1].op = "d" /\ CallsFor(log[1].ts) = 1
    /\ log[2].op = "n" /\ CallsFor(log[2].ts) = 0
    /\ iter.last = 2
    /\ Quiet

----------------------------------------------------------------------------
(* C9: the selector *)

----------------------------------------------------------------------------
(* C10: idempotent initialization *)

\* C10: when the process dies right after NewOpLogTailer and starts again
\* with the same filter and label, NewOpLogTailer leaves the same checkpoint
\* in memory and the same collection as the first time.
C10_Idempotent ==
    ( /\ pc = "created"
      /\ prevInit.valid
      /\ prevInit.info.filterRegex = tailerInfo.filterRegex
      /\ prevInit.info.label = tailerInfo.label )
    => /\ tailerInfo = prevInit.info
       /\ tailerInfoCollection = prevInit.store

\* C10: the second of two initializations in a row, on a collection the first
\* one had to create the checkpoint in
C10_Witness ==
    /\ pc = "created"
    /\ prevInit.valid
    /\ prevInit.info.label = tailerInfo.label
    /\ tailerInfoCollection = << tailerInfo >>
    /\ tailerInfo.startReadingFromTime = MongoTimestamp(1, 0)

----------------------------------------------------------------------------
(* C11: more than one checkpoint is fatal *)

\* C11: NewOpLogTailer ends in log.Fatalf exactly when the collection holds
\* more than one document for its filter and label; it then returns no
\* tailer and leaves the collection as it found it, and in the dead process
\* no cursor is opened, no goroutine runs and no handler method is invoked.
C11_FatalOnDuplicates ==
    [][ /\ (pc = "main" /\ pc' # "main") =>
              /\ pc' \in {"fatal", "created"}
              /\ pc' = "fatal" <=>
                     Len(Find(tailerInfoCollection,
                              buildOpLogTailerInfoSelector(tailerInfo'))) > 1
        /\ (pc' = "fatal") =>
              /\ tailerInfoCollection' = tailerInfoCollection
              /\ iter' = NULL
              /\ advTasks' = EmptyBag /\ hTasks' = EmptyBag
              /\ calls' = EmptyBag
      ]_vars

\* C11: the process has died in NewOpLogTailer on a collection that holds the
\* checkpoint of its filter and label twice
C11_Witness ==
    /\ pc = "fatal"
    /\ Len(tailerInfoCollection) = 2
    /\ Len(Find(tailerInfoCollection,
                buildOpLogTailerInfoSelector(tailerInfo))) = 2
    /\ calls = EmptyBag

----------------------------------------------------------------------------
(* C12: Start returns only on a cursor error *)

\* Start is running: Connecting, Streaming or Reconnecting
Running == pc \in {"created", "next", "reconnecting"}

\* C12: a step of a running Start leaves it running unless the cursor has
\* just reported an error: a timeout, a dead cursor, an entry with an
\* unrecognized operation or a dispatch goroutine that has not ended never
\* makes Start return.
C12_ExitsOnlyOnError ==
    [][ /\ Running => (Running' \/ (pc = "next" /\ pc' = "returned" /\ iter'.err))
        /\ (pc = "next" /\ ~iter'.err) => pc' \in {"next", "reconnecting"}
      ]_vars

\* C12: Start is still fetching after its cursor died and was reopened, the
\* new cursor delivered an entry with an unrecognized operation and timed
\* out, and a dispatch goroutine has not ended
C12_Witness ==
    /\ pc = "next"
    /\ reopens = 1
    /\ iter.timeout
    /\ ~Recognized(result.op)
    /\ hTasks # EmptyBag

----------------------------------------------------------------------------
(* C13: one tailer, one filter and label *)

\* C13: every selector of a cursor of the first tailer carries the filter the
\* tailer was created with, and every checkpoint update one of its goroutines
\* is about to issue carries that filter and label, also after a second
\* tailer was constructed in the same process.
C13_OnePair ==
    pc \in {"next", "reconnecting", "returned"} =>
        /\ iter.sel[2].val = FirstFilter
        /\ \A t \in BagToSet(advTasks) :
               t.pc = "update" =>
                   /\ t.doc.filterRegex = FirstFilter
                   /\ t.doc.label = FirstLabel

----------------------------------------------------------------------------
(* C14: checkpoints of different filters and labels are independent *)

Pair(doc) == <<doc.filterRegex, doc.label>>

\* C14: a step of the process that changes the checkpoint collection is a
\* step of its tailer; it deletes no document, changes the filter and label
\* of none, changes no document of another filter or label, and adds at most
\* one document: that happens only in NewOpLogTailer, for a filter and label
\* the collection did not hold, and leaves every document there was as it is.
C14_Independent ==
    [][ tailerInfoCollection' # tailerInfoCollection =>
          /\ pc' # "main"
          /\ Len(tailerInfoCollection') \in
                 {Len(tailerInfoCollection), Len(tailerInfoCollection) + 1}
          /\ \A k \in 1..Len(tailerInfoCollection) :
                 /\ Pair(tailerInfoCollection'[k]) = Pair(tailerInfoCollection[k])
                 /\ Pair(tailerInfoCollection[k]) # Pair(tailerInfo') =>
                        tailerInfoCollection'[k] = tailerInfoCollection[k]
          /\ Len(tailerInfoCollection') > Len(tailerInfoCollection) =>
                 /\ pc = "main"
                 /\ Pair(tailerInfoCollection'[Len(tailerInfoCollection')])
                        = Pair(tailerInfo')
                 /\ \A k \in 1..Len(tailerInfoCollection) :
                        /\ tailerInfoCollection'[k] = tailerInfoCollection[k]
                        /\ Pair(tailerInfoCollection[k]) # Pair(tailerInfo')
      ]_vars

\* C14: after a restart with another label the collection holds the document
\* of the first label where the first process left it and the document of the
\* second label, advanced to the position of a log entry
C14_Witness ==
    /\ restarts = 1
    /\ pc = "next"
    /\ Quiet
    /\ Len(tailerInfoCollection) = 2
    /\ tailerInfoCollection[1].label = "etl1"
    /\ tailerInfoCollection[1].startReadingFromTime = log[1].ts
    /\ tailerInfoCollection[2].label = "etl2"
    /\ tailerInfoCollection[2].startReadingFromTime = log[2].ts
    /\ tailerInfo.label = "etl2"

----------------------------------------------------------------------------
(* C15: the checkpoint goroutine uses its own entry's position *)

\* C15: the position a checkpoint goroutine is about to write to the
\* checkpoint in memory (and from there to the collection) is the position
\* of the entry the goroutine was started for, also when the loop has fetched
\* the next entry before the goroutine ran.
C15_OwnPosition ==
    \A t \in BagToSet(advTasks) : t.pc = "write" => t.ts = t.for

----------------------------------------------------------------------------
(* C16: the checkpoint can pass an entry that was not delivered *)

\* C16: when the process dies while the checkpoint document has reached the
\* position of a fetched insert, update or delete whose handler method was
\* not invoked, the process started next with the same filter and label
\* never fetches that entry and never invokes a handler method for it.
C16_NeverDelivered ==
    (pc \in {"created", "next", "reconnecting", "returned"}
        /\ tailerInfo.label = missed.label)
    => \A ts \in missed.at :
           /\ CallsFor(ts) = 0
           /\ \A t \in BagToSet(hTasks) : t.for # ts

\* C16: the process started after such a death has read its cursor to the
\* end and every goroutine has ended, with no invocation for the entry
C16_Witness ==
    /\ pc = "next"
    /\ restarts = 1
    /\ missed.at # {}
    /\ tailerInfo.label = missed.label
    /\ iter.wait = InitialWait
    /\ ~HasNext(iter)
    /\ Quiet

----------------------------------------------------------------------------
(* C17: a timeout keeps the cursor *)

\* C17: the step in which the cursor reports a timeout leaves the loop
\* fetching from the same cursor, with the same selector and at the same
\* place, opens nothing and changes no checkpoint; and the cursor that
\* reports it is one Start reopened with the bounded wait, never the first
\* one.
C17_TimeoutKeepsCursor ==
    [][ (pc = "next" /\ ~iter.timeout /\ iter'.timeout) =>
          /\ pc' = "next"
          /\ iter' = [iter EXCEPT !.timeout = TRUE]
          /\ ~iter'.err /\ ~iter'.dead
          /\ iter.wait = ReconnectWait
          /\ reopens' = reopens
          /\ tailerInfo' = tailerInfo
          /\ tailerInfoCollection' = tailerInfoCollection
      ]_vars

\* C17: a reopened cursor has delivered an entry and then timed out, and the
\* loop is fetching from it
C17_Witness ==
    /\ pc = "next"
    /\ iter.timeout
    /\ iter.wait = ReconnectWait
    /\ iter.last > 0
    /\ Quiet

----------------------------------------------------------------------------
(* C18: an unrecognized operation is not fatal *)

\* the loop fetches an entry in this step
Fetches == pc = "next" /\ pc' = "next" /\ iter'.last > iter.last

\* C18: the fetch of an entry whose operation is none of insert, update and
\* delete starts a checkpoint goroutine and a dispatch goroutine for it as
\* for any entry and leaves the loop fetching; the end of its dispatch
\* goroutine invokes nothing, and no invocation is ever made for it.
C18_UnrecognizedDropped ==
    [][ /\ (Fetches /\ ~Recognized(result'.op)) =>
              /\ advTasks' = advTasks (+) SetToBag({AdvTask(result')})
              /\ hTasks' = hTasks (+) SetToBag({HandlerTask(result')})
              /\ calls' = calls
              /\ ~iter'.err /\ ~iter'.dead
        /\ \A t \in BagToSet(hTasks) :
              (hTasks' = hTasks (-) SetToBag({t}) /\ ~Recognized(t.result.op))
              => calls' = calls
        /\ \A c \in BagToSet(calls') : Recognized(EntryAt(c.for).op)
      ]_vars

\* C18: the first entry had an unrecognized operation, the loop went on to
\* fetch the insert after it and handed it to OnInsert, and the checkpoint
\* document has reached the insert
C18_Witness ==
    /\ pc = "next"
    /\ ~Recognized(log[1].op)
    /\ CallsFor(log[1].ts) = 0
    /\ log[2].op = "i"
    /\ calls = SetToBag({ [method |-> "OnInsert", arg |-> log[2].o,
                           for |-> log[2].ts] })
    /\ iter.last = 2
    /\ reopens = 0
    /\ Persisted = log[2].ts
    /\ Quiet

----------------------------------------------------------------------------
(* C19: the checkpoint in memory and the fetch loop *)

\* C19: once a checkpoint goroutine has set the checkpoint in memory to the
\* position of a log entry, that position is never greater than the position
\* of the entry the loop has fetched last.
C19_NeverAhead ==
    pc \in {"next", "reconnecting", "returned"} =>
        \A i \in 1..Len(log) :
            tailerInfo.startReadingFromTime = log[i].ts
            => tailerInfo.startReadingFromTime <= result.ts

----------------------------------------------------------------------------
(* C20: the checkpoint in memory and the checkpoint document at quiescence *)

\* C20: when the loop has fetched an entry and every checkpoint goroutine it
\* started has ended, the position in the checkpoint document is the
\* position of the checkpoint in memory, the one a reconnect would use.
C20_AgreeAtQuiescence ==
    ( /\ pc \in {"next", "reconnecting", "returned"}
      /\ result # ZeroEntry
      /\ advTasks = EmptyBag )
    => Persisted = tailerInfo.startReadingFromTime

====
